---- MODULE Spec2Model ----
(***************************************************************************)
(* Model of advanced_manager.py: the metrics history (MetricsCollector.    *)
(* store_metrics over Redis lists or the in-process list), its reader      *)
(* (AdvancedContainerManager.get_container_stats_history) and the          *)
(* background thread collect_metrics_background, the query routes and the  *)
(* terminal sessions (TerminalManager).                                    *)
(*                                                                         *)
(* Python dicts are TLA+ records; the empty dict {} is the function with   *)
(* empty domain.  json.dumps wraps a dict into a string value and          *)
(* json.loads unwraps it.  datetime.now() reads the clock `now`, which      *)
(* advances once per cycle of the thread.  A call to the container runtime *)
(* or to the Redis server succeeds or raises; the outcome is an input of   *)
(* the step that makes the call.                                           *)
(***************************************************************************)
EXTENDS Integers, Sequences, FiniteSets, TLC

\* ---------------------------------------------------------------- bounds
\* The container ids known to the runtime.
Containers == {"c1", "c2"}

\* MetricsCollector.max_history (advanced_manager.py:66).  The program sets
\* 100; the model scales the cap down so that eviction happens within the
\* explored runs.  Every property is stated in terms of max_history.
max_history == 2

\* The clock saturates at MaxTime (timestamps stay monotone).
MaxTime == 2

\* LTRIM fails after its LPUSH went through at most MaxTrimFailures times
\* (each such failure leaves one more element in a list).
MaxTrimFailures == 1

\* The runtime creates at most MaxExecs exec instances.
MaxExecs == 3

\* A container has at most MaxCores entries in percpu_usage.
MaxCores == 4

\* ------------------------------------------------------- program constants
SampleInterval == 5
BackoffInterval == 10

None == "None"

VARIABLES
    DOCKER_AVAILABLE,   \* module global, set once at import
    REDIS_AVAILABLE,    \* module global, set once at import
    now,                \* the clock read by datetime.now()
    redis_lists,        \* Redis: key -> list, index 1 is the head
    metrics_history,    \* MetricsCollector.metrics_history
    pc,                 \* position of the background thread
    todo,               \* containers still to visit in the for loop
    st,                 \* arguments of the store_metrics call in progress
    cyc,                \* what the current cycle has done so far
    lastSleep,          \* duration of the time.sleep that ended the last cycle
    tornKeys,           \* metrics types whose last append was cut short by a failure
    trimFailures,       \* number of LTRIM calls that failed
    written,            \* metrics types a record was ever written for
    req,                \* a request being served and its result
    status,             \* the runtime: container.status, as create_session and
                        \* send_command meet it (list() in the thread takes the
                        \* running containers as an input of its step)
    active_sessions,    \* TerminalManager.active_sessions
    nextExec,           \* the runtime: number of exec instances created
    attached,           \* the runtime: exec instances a stream was attached to
    killed              \* the process has exited (daemon threads end with it)

vars == <<DOCKER_AVAILABLE, REDIS_AVAILABLE, now, redis_lists, metrics_history,
          pc, todo, st, cyc, lastSleep, tornKeys, trimFailures, written, req,
          status, active_sessions, nextExec, attached, killed>>

flags == <<DOCKER_AVAILABLE, REDIS_AVAILABLE>>
storeVars == <<redis_lists, metrics_history>>
loopVars == <<pc, todo, st, cyc, lastSleep, tornKeys, trimFailures, written>>
sessVars == <<status, active_sessions, nextExec, attached, killed>>

\* ------------------------------------------------------------ pure helpers
EmptyDict == [x \in {} |-> None]

\* a test that every dict passes
TruthyAlways(d) == TRUE

\* Python truthiness of a dict
Truthy(d) == DOMAIN d # {}

\* dict.get(k)
Get(d, k) == IF k \in DOMAIN d THEN d[k] ELSE None

\* d[k] = v on a dict
SetItem(d, k, v) == [x \in (DOMAIN d) \cup {k} |-> IF x = k THEN v ELSE d[x]]

json_dumps(d) == [json |-> d]
json_loads(s) == s.json

Tick(t) == IF t < MaxTime THEN t + 1 ELSE t

RECURSIVE Reverse(_)
Reverse(s) == IF s = <<>> THEN <<>> ELSE Append(Reverse(Tail(s)), Head(s))

Map(f(_), s) == [i \in 1..Len(s) |-> f(s[i])]

\* metrics types: 'system' and f'container:{id}'
SystemType == <<"system">>
ContainerType(c) == <<"container", c>>
MetricsTypes == {SystemType} \cup {ContainerType(c) : c \in Containers}

\* f"metrics:{metrics_type}"
RedisKey(metrics_type) == <<"metrics">> \o metrics_type
\* f"metrics:container:{container_id}"
RedisContainerKey(container_id) == <<"metrics", "container", container_id>>
RedisKeys == {RedisKey(t) : t \in MetricsTypes}

\* Redis LPUSH key value
lpush(lists, key, value) == [lists EXCEPT ![key] = <<value>> \o @]

\* Redis LTRIM key 0 stop   (stop >= 0)
ltrim(lists, key, stop) ==
    [lists EXCEPT ![key] = SubSeq(@, 1, IF Len(@) < stop + 1 THEN Len(@) ELSE stop + 1)]

\* Redis LRANGE key 0 -1
lrange(lists, key) == lists[key]

\* metrics_history.append({...})
MemAppend(hist, metrics_type, data, ts) ==
    Append(hist, [type |-> metrics_type, data |-> data, timestamp |-> ts])

\* the pop taking the last element, list.pop()
MemPopNewest(hist) ==
    IF Len(hist) > max_history THEN SubSeq(hist, 1, Len(hist) - 1) ELSE hist

\* the pop with the test off by one
MemPopLate(hist) == IF Len(hist) > max_history + 1 THEN Tail(hist) ELSE hist

\* if len(metrics_history) > max_history: metrics_history.pop(0)
MemPop(hist) == IF Len(hist) > max_history THEN Tail(hist) ELSE hist

\* store_metrics(metrics_type, data) as a whole, the Redis branch
store_in_redis(lists, metrics_type, data) ==
    ltrim(lpush(lists, RedisKey(metrics_type), json_dumps(data)),
          RedisKey(metrics_type), max_history - 1)

\* store_metrics(metrics_type, data) as a whole, the in-memory branch
store_in_memory(hist, metrics_type, data, ts) ==
    MemPop(MemAppend(hist, metrics_type, data, ts))

\* list(all=True) instead
containers_list_all(running) == Containers

\* docker_client.containers.list() when `running` is the set of running
\* containers: the running containers only (all=False is the default)
containers_list(running) == running

\* the orders in which a set can be listed
Orders(S) ==
    {s \in [1..Cardinality(S) -> S] : \A i, j \in 1..Cardinality(S) : s[i] = s[j] => i = j}

\* ------------------------------------------------------- history, as read
\* The records held for a metrics type, oldest first.
Retained(metrics_type) ==
    IF REDIS_AVAILABLE
    THEN Reverse(Map(json_loads, redis_lists[RedisKey(metrics_type)]))
    ELSE LET mine == SelectSeq(metrics_history, LAMBDA m : m.type = metrics_type)
         IN  [i \in 1..Len(mine) |-> mine[i].data]

\* The last n elements of a sequence
LastN(s, n) == IF Len(s) <= n THEN s ELSE SubSeq(s, Len(s) - n + 1, Len(s))

\* the Redis branch without its try/except
history_from_redis_uncaught(container_id, redis_ok) ==
    IF redis_ok
    THEN [raised |-> FALSE,
          value  |-> Map(json_loads, lrange(redis_lists, RedisContainerKey(container_id)))]
    ELSE [raised |-> TRUE, value |-> <<>>]

\* get_container_stats_history, the Redis branch (lines 487-492), with
\* redis_ok the outcome of the LRANGE call: the returned list, and
\* raised = TRUE when an exception reaches the caller.
history_from_redis(container_id, redis_ok) ==
    IF redis_ok
    THEN [raised |-> FALSE,
          value  |-> Map(json_loads, lrange(redis_lists, RedisContainerKey(container_id)))]
    ELSE [raised |-> FALSE, value |-> <<>>]

\* get_container_stats_history, the in-memory branch (lines 495-496)
history_from_memory(container_id) ==
    [raised |-> FALSE,
     value  |-> SelectSeq(metrics_history,
                          LAMBDA m : Get(m, "container_id") = container_id)]

\* AdvancedContainerManager.get_container_stats_history(container_id)
get_container_stats_history(container_id, redis_ok) ==
    IF REDIS_AVAILABLE
    THEN history_from_redis(container_id, redis_ok)
    ELSE history_from_memory(container_id)

\* What the calls inside collect_container_metrics can do: all succeed
\* ("ok"), containers.get raises (the container disappeared, the API
\* failed), container.stats raises, or a key read from the stats dict is
\* missing (KeyError).
StatsOutcomes == {"ok", "get_raises", "stats_raises", "field_missing"}

\* What a call returns to its caller: a value, or an exception raised
Return(value) == [raised |-> FALSE, value |-> value]
Raised == [raised |-> TRUE, value |-> None]

\* collect_container_metrics without its try/except
collect_container_metrics_uncaught(container_id, t, outcome) ==
    IF ~DOCKER_AVAILABLE
    THEN Return(EmptyDict)
    ELSE IF outcome = "ok" THEN Return([timestamp |-> t]) ELSE Raised

\* MetricsCollector.collect_container_metrics(container_id) at time t, with
\* outcome what the runtime calls (get, stats) and the derivation do.
\* Every exception inside the try block is caught and gives {} (lines 124-126).
collect_container_metrics(container_id, t, outcome) ==
    IF ~DOCKER_AVAILABLE
    THEN Return(EmptyDict)
    ELSE IF outcome = "ok" THEN Return([timestamp |-> t]) ELSE Return(EmptyDict)

\* collect_system_metrics without its try/except
collect_system_metrics_uncaught(t, psutil_ok) ==
    IF psutil_ok THEN Return([timestamp |-> t]) ELSE Raised

\* MetricsCollector.collect_system_metrics() at time t, with psutil_ok the
\* outcome of the psutil calls; an exception is caught and gives {}
\* (lines 80-82).
collect_system_metrics(t, psutil_ok) ==
    IF psutil_ok THEN Return([timestamp |-> t]) ELSE Return(EmptyDict)

\* ------------------------------------------------------------------- Init
NoStore == [type |-> None, data |-> EmptyDict, ret |-> None]
NewCycle == [host |-> 0, sampled |-> [c \in Containers |-> 0], listed |-> {},
             failCause |-> "none", afterFailure |-> FALSE]
NoReq == [op |-> "none"]

Init ==
    /\ DOCKER_AVAILABLE \in BOOLEAN
    /\ REDIS_AVAILABLE \in BOOLEAN
    /\ now = 0
    /\ redis_lists = [k \in RedisKeys |-> <<>>]
    /\ metrics_history = <<>>
    /\ pc = "collect_system"
    /\ todo = <<>>
    /\ st = NoStore
    /\ cyc = NewCycle
    /\ lastSleep = 0
    /\ tornKeys = {}
    /\ trimFailures = 0
    /\ written = {}
    /\ req = NoReq
    /\ status = [c \in Containers |-> "running"]
    /\ active_sessions = EmptyDict
    /\ nextExec = 0
    /\ attached = [e \in 1..MaxExecs |-> FALSE]
    /\ killed = FALSE

\* ------------------------------------------------- the background thread
\* An exception leaves the try block of collect_metrics_background.
Raise(cause) ==
    /\ pc' = "except"
    /\ cyc' = [NewCycle EXCEPT !.failCause = cause]
    /\ todo' = <<>>
    /\ st' = NoStore

\* store_metrics(metrics_type, data) is entered; the thread comes back to ret.
CallStore(metrics_type, data, ret) ==
    /\ st' = [type |-> metrics_type, data |-> data, ret |-> ret]
    /\ pc' = IF REDIS_AVAILABLE THEN "lpush" ELSE "append"

\* lines 508-510
CollectSystem ==
    /\ pc = "collect_system"
    /\ now' = Tick(now)
    /\ \E psutil_ok \in BOOLEAN :
          LET call == collect_system_metrics(now', psutil_ok)
              system_metrics == call.value
              started == [NewCycle EXCEPT !.host = 1,
                                          !.afterFailure = (cyc.failCause # "none")]
          IN  IF call.raised
              THEN /\ pc' = "except"
                   /\ cyc' = [NewCycle EXCEPT !.failCause = "sample"]
                   /\ UNCHANGED st
              ELSE /\ cyc' = started
                   /\ IF Truthy(system_metrics)
                      THEN CallStore(SystemType, system_metrics, "list")
                      ELSE pc' = "list" /\ UNCHANGED st
    /\ lastSleep' = 0
    /\ UNCHANGED <<flags, sessVars, storeVars, todo, tornKeys, trimFailures, written, req>>

\* line 132
Lpush ==
    /\ pc = "lpush"
    /\ \E redis_ok \in BOOLEAN :
          IF redis_ok
          THEN /\ redis_lists' = lpush(redis_lists, RedisKey(st.type), json_dumps(st.data))
               /\ pc' = "ltrim"
               /\ written' = written \cup {st.type}
               /\ UNCHANGED <<st, cyc, todo>>
          ELSE /\ Raise("store")
               /\ UNCHANGED <<redis_lists, written>>
    /\ UNCHANGED <<flags, sessVars, now, metrics_history, lastSleep, tornKeys, trimFailures, req>>

\* line 133
Ltrim ==
    /\ pc = "ltrim"
    /\ \E redis_ok \in (IF trimFailures < MaxTrimFailures THEN BOOLEAN ELSE {TRUE}) :
          IF redis_ok
          THEN /\ redis_lists' = ltrim(redis_lists, RedisKey(st.type), max_history - 1)
               /\ pc' = st.ret
               /\ st' = NoStore
               /\ tornKeys' = tornKeys \ {st.type}
               /\ UNCHANGED <<cyc, todo, trimFailures>>
          ELSE /\ Raise("store")
               /\ tornKeys' = tornKeys \cup {st.type}
               /\ trimFailures' = trimFailures + 1
               /\ UNCHANGED redis_lists
    /\ UNCHANGED <<flags, sessVars, now, metrics_history, lastSleep, written, req>>

\* lines 135-139
AppendStep ==
    /\ pc = "append"
    /\ metrics_history' = MemAppend(metrics_history, st.type, st.data, now)
    /\ pc' = "pop"
    /\ written' = written \cup {st.type}
    /\ UNCHANGED <<flags, sessVars, now, redis_lists, todo, st, cyc, lastSleep, tornKeys,
                   trimFailures, req>>

\* lines 140-141
PopStep ==
    /\ pc = "pop"
    /\ metrics_history' = MemPop(metrics_history)
    /\ pc' = st.ret
    /\ st' = NoStore
    /\ UNCHANGED <<flags, sessVars, now, redis_lists, todo, cyc, lastSleep, tornKeys,
                   trimFailures, written, req>>

\* list() called without the test of DOCKER_AVAILABLE: without a runtime
\* client the call raises
ListContainersUntested ==
    /\ pc = "list"
    /\ \E docker_ok \in BOOLEAN :
          IF docker_ok /\ DOCKER_AVAILABLE
          THEN \E running \in SUBSET Containers :
               /\ todo' \in Orders(containers_list(running))
               /\ cyc' = [cyc EXCEPT !.listed = running]
               /\ pc' = "for"
               /\ UNCHANGED st
          ELSE Raise("list")
    /\ UNCHANGED <<flags, sessVars, now, storeVars, lastSleep, tornKeys, trimFailures,
                   written, req>>

\* lines 513-514: the test of DOCKER_AVAILABLE and the call of list(), which
\* raises or returns the containers that are running
ListContainers ==
    /\ pc = "list"
    /\ IF ~DOCKER_AVAILABLE
       THEN pc' = "sleep" /\ UNCHANGED <<todo, cyc, st>>
       ELSE \E docker_ok \in BOOLEAN :
            IF docker_ok
            THEN \E running \in SUBSET Containers :
                 /\ todo' \in Orders(containers_list(running))
                 /\ cyc' = [cyc EXCEPT !.listed = running]
                 /\ pc' = "for"
                 /\ UNCHANGED st
            ELSE Raise("list")
    /\ UNCHANGED <<flags, sessVars, now, storeVars, lastSleep, tornKeys, trimFailures,
                   written, req>>

\* lines 514-518: one iteration of the for loop, or its end
ForContainers ==
    /\ pc = "for"
    /\ IF todo = <<>>
       THEN pc' = "sleep" /\ UNCHANGED <<todo, cyc, st>>
       ELSE LET c == Head(todo) IN
            \E outcome \in StatsOutcomes :
               LET call == collect_container_metrics(c, now, outcome)
                   container_metrics == call.value
               IN  IF call.raised
                   THEN Raise("sample")
                   ELSE /\ todo' = Tail(todo)
                        /\ cyc' = [cyc EXCEPT !.sampled[c] = @ + 1]
                        /\ IF Truthy(container_metrics)
                           THEN CallStore(ContainerType(c),
                                          SetItem(container_metrics, "container_id", c),
                                          "for")
                           ELSE pc' = "for" /\ UNCHANGED st
    /\ UNCHANGED <<flags, sessVars, now, storeVars, lastSleep, tornKeys, trimFailures,
                   written, req>>

\* the sleep of the try block, keeping the backoff of the cycle before
SleepOkSticky ==
    /\ pc = "sleep"
    /\ lastSleep' = IF cyc.afterFailure THEN BackoffInterval ELSE SampleInterval
    /\ pc' = "collect_system"
    /\ cyc' = [NewCycle EXCEPT !.afterFailure = cyc.afterFailure]
    /\ UNCHANGED <<flags, sessVars, now, storeVars, todo, st, tornKeys, trimFailures,
                   written, req>>

\* line 520
SleepOk ==
    /\ pc = "sleep"
    /\ lastSleep' = SampleInterval
    /\ pc' = "collect_system"
    /\ cyc' = [NewCycle EXCEPT !.afterFailure = cyc.afterFailure]
    /\ UNCHANGED <<flags, sessVars, now, storeVars, todo, st, tornKeys, trimFailures,
                   written, req>>

\* the exception leaves the while loop: the thread ends
HandleExceptionExit ==
    /\ pc = "except"
    /\ pc' = "dead"
    /\ UNCHANGED <<flags, sessVars, now, storeVars, todo, st, cyc, lastSleep, tornKeys,
                   trimFailures, written, req>>

\* lines 521-523
HandleException ==
    /\ pc = "except"
    /\ lastSleep' = BackoffInterval
    /\ pc' = "collect_system"
    /\ UNCHANGED <<flags, sessVars, now, storeVars, todo, st, cyc, tornKeys, trimFailures,
                   written, req>>

Loop ==
    \/ CollectSystem
    \/ Lpush
    \/ Ltrim
    \/ AppendStep
    \/ PopStep
    \/ ListContainers
    \/ ForContainers
    \/ SleepOk
    \/ HandleException

\* ------------------------------------------------------- request threads
\* What the store holds for the container's stream (in the backend's own
\* order), whichever backend is in use.
Stored(lists, hist, container_id) ==
    IF REDIS_AVAILABLE
    THEN Map(json_loads, lists[RedisContainerKey(container_id)])
    ELSE LET mine == SelectSeq(hist, LAMBDA m : m.type = ContainerType(container_id))
         IN  [i \in 1..Len(mine) |-> mine[i].data]

\* store_metrics is between its two steps on the container's stream
MidAppend(container_id) ==
    pc \in {"ltrim", "pop"} /\ st.type = ContainerType(container_id)

\* get_container_stats_history(container_id), called from container_detail.
\* req keeps the call's result together with what the store held when the
\* call was made: the stream before and after the append in progress (both
\* are the stream itself when no append is in progress).
ReadHistory(container_id) ==
    /\ \E redis_ok \in BOOLEAN :
       LET r == get_container_stats_history(container_id, redis_ok)
           mid == MidAppend(container_id)
           key == RedisContainerKey(container_id)
       IN
       req' = [op |-> "history", container_id |-> container_id,
               result |-> r.value, raised |-> r.raised,
               down |-> REDIS_AVAILABLE /\ ~redis_ok,
               fresh |-> ContainerType(container_id) \notin written,
               mid |-> mid,
               before |-> IF mid
                          THEN Stored([redis_lists EXCEPT ![key] = Tail(@)],
                                      SubSeq(metrics_history, 1, Len(metrics_history) - 1),
                                      container_id)
                          ELSE Stored(redis_lists, metrics_history, container_id),
               after |-> IF mid
                         THEN Stored(ltrim(redis_lists, key, max_history - 1),
                                     MemPop(metrics_history), container_id)
                         ELSE Stored(redis_lists, metrics_history, container_id)]
    /\ UNCHANGED <<flags, sessVars, now, storeVars, pc, todo, st, cyc, lastSleep,
                   tornKeys, trimFailures, written>>

Request == \E c \in Containers : ReadHistory(c)

\* The caller takes the result.
Respond ==
    /\ req # NoReq
    /\ req' = NoReq
    /\ UNCHANGED <<flags, sessVars, now, storeVars, pc, todo, st, cyc, lastSleep,
                   tornKeys, trimFailures, written>>

\* A request's result is taken by its caller before anything else happens.
Next ==
    \/ Respond
    \/ (req = NoReq /\ Loop)
    \/ (req = NoReq /\ Request)

Spec == Init /\ [][Next]_vars

\* The background thread on its own (no request writes anything the thread
\* reads).  It is a thread of its own, started at line 527: whenever it can
\* take a step it eventually takes one.
SpecLive == Init /\ [][Loop]_vars /\ WF_vars(Loop)

\* ------------------------------------------- the two backends side by side
\* The same store_metrics call is made on the Redis backend and on the
\* in-memory backend.
EquivAppend ==
    /\ now' = Tick(now)
    /\ \E t \in MetricsTypes :
          LET data == IF t = SystemType
                      THEN [timestamp |-> now']
                      ELSE SetItem([timestamp |-> now'], "container_id", t[2])
          IN  /\ redis_lists' = store_in_redis(redis_lists, t, data)
              /\ metrics_history' = store_in_memory(metrics_history, t, data, now')
              /\ written' = written \cup {t}
    /\ UNCHANGED <<flags, sessVars, pc, todo, st, cyc, lastSleep, tornKeys, trimFailures, req>>

\* The same get_container_stats_history call is made on both backends.
EquivRead ==
    /\ \E c \in Containers :
          req' = [op |-> "both", container_id |-> c,
                  redis |-> history_from_redis(c, TRUE),
                  memory |-> history_from_memory(c)]
    /\ UNCHANGED <<flags, sessVars, now, storeVars, pc, todo, st, cyc, lastSleep,
                   tornKeys, trimFailures, written>>

EquivNext ==
    \/ Respond
    \/ (req = NoReq /\ EquivAppend)
    \/ (req = NoReq /\ EquivRead)

SpecEquiv == Init /\ [][EquivNext]_vars

\* ------------------------------------------------------ the query routes
\* api_system_metrics storing the sample it returns
ApiSystemMetricsStoring ==
    /\ \E psutil_ok \in BOOLEAN :
          LET call == collect_system_metrics(now, psutil_ok) IN
          /\ req' = [op |-> "system_metrics", result |-> call.value,
                     raised |-> call.raised, ok |-> psutil_ok]
          /\ redis_lists' = IF REDIS_AVAILABLE /\ Truthy(call.value)
                            THEN store_in_redis(redis_lists, SystemType, call.value)
                            ELSE redis_lists
          /\ metrics_history' = IF ~REDIS_AVAILABLE /\ Truthy(call.value)
                                THEN store_in_memory(metrics_history, SystemType,
                                                     call.value, now)
                                ELSE metrics_history
    /\ UNCHANGED <<flags, sessVars, now, loopVars>>

\* api_system_metrics (lines 676-680): the route returns what
\* collect_system_metrics returns; an exception would leave the route.
ApiSystemMetrics ==
    /\ \E psutil_ok \in BOOLEAN :
          LET call == collect_system_metrics(now, psutil_ok) IN
          req' = [op |-> "system_metrics", result |-> call.value,
                  raised |-> call.raised, ok |-> psutil_ok]
    /\ UNCHANGED <<flags, sessVars, now, storeVars, loopVars>>

\* api_container_metrics (lines 682-686)
ApiContainerMetrics(container_id) ==
    /\ \E outcome \in StatsOutcomes :
          LET call == collect_container_metrics(container_id, now, outcome) IN
          req' = [op |-> "container_metrics", container_id |-> container_id,
                  result |-> call.value, raised |-> call.raised,
                  outcome |-> outcome]
    /\ UNCHANGED <<flags, sessVars, now, storeVars, loopVars>>

\* ------------------------------------------------------ terminal sessions
Statuses == {"running", "exited"}

\* line 169: f"{container_id}_{int(time.time())}".  The digits of the second
\* hold no "_", so two ids are equal exactly when the container id and the
\* second are equal: the id is modelled as the pair.
SessionId(container_id, t) == <<container_id, t>>
SessionIds == {SessionId(c, t) : c \in Containers, t \in 0..MaxTime}

\* What the runtime calls of create_session can do
CreateOutcomes == {"ok", "get_raises", "exec_create_raises"}

\* What a create_session call gives: the value returned and the registry
Created(result, sessions) == [result |-> result, sessions |-> sessions]

\* create_session without the test of container.status
create_session_any_status(sessions, container_id, t, container_status, exec_id, outcome) ==
    IF ~DOCKER_AVAILABLE
    THEN Created(None, sessions)
    ELSE IF outcome # "ok"
         THEN Created(None, sessions)
         ELSE LET session_id == SessionId(container_id, t) IN
              Created(session_id,
                      SetItem(sessions, session_id,
                              [container_id |-> container_id, exec_id |-> exec_id,
                               socket |-> None]))

\* TerminalManager.create_session(container_id) on the registry `sessions`
\* at second t, when the runtime reports container_status, exec_create would
\* return exec_id and the runtime calls do `outcome`.
create_session(sessions, container_id, t, container_status, exec_id, outcome) ==
    IF ~DOCKER_AVAILABLE
    THEN Created(None, sessions)
    ELSE IF outcome = "get_raises"
         THEN Created(None, sessions)
         ELSE IF container_status # "running"
              THEN Created(None, sessions)
              ELSE IF outcome = "exec_create_raises"
                   THEN Created(None, sessions)
                   ELSE LET session_id == SessionId(container_id, t) IN
                        Created(session_id,
                                SetItem(sessions, session_id,
                                        [container_id |-> container_id,
                                         exec_id |-> exec_id, socket |-> None]))

\* api_create_terminal -> create_terminal_session -> create_session
\* (lines 704-711, 480-482).  req keeps the registry as it was before the call.
CreateSession(container_id) ==
    /\ nextExec < MaxExecs
    /\ \E outcome \in CreateOutcomes :
          LET call == create_session(active_sessions, container_id, now,
                                     status[container_id], nextExec + 1, outcome)
          IN  /\ active_sessions' = call.sessions
              /\ nextExec' = IF call.result # None THEN nextExec + 1 ELSE nextExec
              /\ req' = [op |-> "create", container_id |-> container_id,
                         result |-> call.result, outcome |-> outcome,
                         running |-> (status[container_id] = "running"),
                         before |-> active_sessions]
    /\ UNCHANGED <<flags, now, storeVars, loopVars, status, attached, killed>>

\* What the runtime calls of send_command can do
SendOutcomes == {"ok", "get_raises", "exec_start_raises", "send_raises"}

\* APIClient.exec_start as called at lines 191-196: the kind of object it
\* returns for its flags.  Without socket=True the caller gets the output
\* (bytes, or a stream of it when stream=True), not the socket.
exec_start(detach, stream, socket) ==
    IF detach THEN "bytes"
    ELSE IF socket THEN "SocketIO"
    ELSE IF stream THEN "CancellableStream" ELSE "bytes"

\* The object has an attribute _sock (line 199 reads it)
has_sock(obj) == obj = "SocketIO"

\* What a send_command call gives: the value returned, whether exec_start
\* was called and whether it returned (the runtime attached a stream)
Sent(result, called, got_stream) ==
    [result |-> result, called |-> called, attached |-> got_stream]

\* TerminalManager.send_command(session_id, command) on the registry
\* `sessions` when the runtime calls do `outcome`
send_command(sessions, session_id, outcome) ==
    IF session_id \notin DOMAIN sessions
    THEN Sent(FALSE, FALSE, FALSE)
    ELSE IF outcome = "get_raises"
         THEN Sent(FALSE, FALSE, FALSE)
         ELSE IF outcome = "exec_start_raises"
              THEN Sent(FALSE, TRUE, FALSE)
              ELSE LET socket == exec_start(FALSE, TRUE, FALSE) IN
                   IF has_sock(socket) /\ outcome = "ok"
                   THEN Sent(TRUE, TRUE, TRUE)
                   ELSE Sent(FALSE, TRUE, TRUE)

\* A call of send_command.  The runtime starts an exec instance only in a
\* running container.
SendCommand(session_id) ==
    /\ \E outcome \in SendOutcomes :
          LET known == session_id \in DOMAIN active_sessions
              e == IF known THEN active_sessions[session_id].exec_id ELSE 0
              running == known /\ status[active_sessions[session_id].container_id] = "running"
              call == send_command(active_sessions, session_id, outcome)
          IN  /\ call.attached => running
              /\ attached' = IF call.attached
                             THEN [attached EXCEPT ![e] = TRUE]
                             ELSE attached
              /\ req' = [op |-> "send", session_id |-> session_id,
                         result |-> call.result, outcome |-> outcome,
                         known |-> known, running |-> running,
                         called |-> call.called,
                         attached_before |-> known /\ attached[e]]
    /\ UNCHANGED <<flags, now, storeVars, loopVars, status, active_sessions,
                   nextExec, killed>>

\* The methods of TerminalManager (lines 143-203)
TerminalManagerMethods == {"__init__", "create_session", "send_command"}

\* A call of terminal_manager.close_session(session_id): the attribute
\* lookup raises AttributeError for a name the class does not define.
CloseSession(session_id) ==
    /\ req' = [op |-> "close", session_id |-> session_id,
               known |-> session_id \in DOMAIN active_sessions,
               raised |-> "close_session" \notin TerminalManagerMethods]
    /\ UNCHANGED <<flags, sessVars, now, storeVars, loopVars>>

\* ------------------------------------------------------- the environment
\* A second passes on the clock read by time.time() and datetime.now().
ClockTick ==
    /\ now < MaxTime
    /\ now' = now + 1
    /\ UNCHANGED <<flags, sessVars, storeVars, loopVars, req>>

\* A container stops or starts.
ContainerChanges(container_id) ==
    /\ status' = [status EXCEPT ![container_id] =
                     IF @ = "running" THEN "exited" ELSE "running"]
    /\ UNCHANGED <<flags, now, storeVars, loopVars, req, active_sessions,
                   nextExec, attached, killed>>

\* The terminal manager and the runtime, without the background thread
\* (which shares no variable with them).
SessNext ==
    \/ Respond
    \/ (req = NoReq /\ \E c \in Containers : CreateSession(c))
    \/ (req = NoReq /\ \E sid \in SessionIds : SendCommand(sid))
    \/ (req = NoReq /\ \E sid \in SessionIds : CloseSession(sid))
    \/ (req = NoReq /\ ClockTick)
    \/ (req = NoReq /\ \E c \in Containers : ContainerChanges(c))

SpecSessions == Init /\ [][SessNext]_vars

\* The request handlers between two cycles of the background thread.  The
\* history store is empty, or holds what the first cycle of the thread has
\* written: the host record and, with the runtime available, the record of c1.
FirstCycleTypes ==
    IF DOCKER_AVAILABLE THEN <<SystemType, ContainerType("c1")>> ELSE <<SystemType>>

FirstCycleRecord(metrics_type) ==
    IF metrics_type = SystemType
    THEN [timestamp |-> 1]
    ELSE SetItem([timestamp |-> 1], "container_id", metrics_type[2])

RECURSIVE StoreAllRedis(_, _)
StoreAllRedis(lists, types) ==
    IF types = <<>> THEN lists
    ELSE StoreAllRedis(store_in_redis(lists, Head(types), FirstCycleRecord(Head(types))),
                       Tail(types))

RECURSIVE StoreAllMemory(_, _)
StoreAllMemory(hist, types) ==
    IF types = <<>> THEN hist
    ELSE StoreAllMemory(store_in_memory(hist, Head(types),
                                        FirstCycleRecord(Head(types)), 1),
                        Tail(types))

InitApi ==
    /\ DOCKER_AVAILABLE \in BOOLEAN
    /\ REDIS_AVAILABLE \in BOOLEAN
    /\ \E filled \in BOOLEAN :
          /\ now = IF filled THEN 1 ELSE 0
          /\ redis_lists = IF filled /\ REDIS_AVAILABLE
                           THEN StoreAllRedis([k \in RedisKeys |-> <<>>], FirstCycleTypes)
                           ELSE [k \in RedisKeys |-> <<>>]
          /\ metrics_history = IF filled /\ ~REDIS_AVAILABLE
                               THEN StoreAllMemory(<<>>, FirstCycleTypes)
                               ELSE <<>>
          /\ written = IF filled
                       THEN {FirstCycleTypes[i] : i \in 1..Len(FirstCycleTypes)}
                       ELSE {}
          /\ lastSleep = IF filled THEN SampleInterval ELSE 0
    /\ pc = "collect_system"
    /\ todo = <<>>
    /\ st = NoStore
    /\ cyc = NewCycle
    /\ tornKeys = {}
    /\ trimFailures = 0
    /\ req = NoReq
    /\ status = [c \in Containers |-> "running"]
    /\ active_sessions = EmptyDict
    /\ nextExec = 0
    /\ attached = [e \in 1..MaxExecs |-> FALSE]
    /\ killed = FALSE

ApiNext ==
    \/ Respond
    \/ (req = NoReq /\ ApiSystemMetrics)
    \/ (req = NoReq /\ \E c \in Containers : ApiContainerMetrics(c))
    \/ (req = NoReq /\ \E c \in Containers : ReadHistory(c))
    \/ (req = NoReq /\ \E c \in Containers : CreateSession(c))
    \/ (req = NoReq /\ \E sid \in SessionIds : SendCommand(sid))

SpecApi == InitApi /\ [][ApiNext]_vars

\* ------------------------------------------------------- process exit
\* The thread is a daemon thread (line 526): when the main thread ends
\* (socketio.run returns or is interrupted, line 734) the interpreter exits
\* and the thread stops wherever it is.  The loop itself has no exit: its
\* condition is `while True` (line 505) and no flag or signal is read.
ProcessExit ==
    /\ ~killed
    /\ killed' = TRUE
    /\ UNCHANGED <<flags, now, storeVars, loopVars, req, status,
                   active_sessions, nextExec, attached>>

ShutdownNext ==
    \/ (~killed /\ Loop)
    \/ ProcessExit

SpecShutdown == Init /\ [][ShutdownNext]_vars

\* ------------------------------------------- the derivation of a record
\* The raw counters read from container.stats(stream=False) at lines 93-104:
\* cpu_stats.cpu_usage.total_usage and its precpu_stats counterpart,
\* cpu_stats.system_cpu_usage and its counterpart, the length of
\* percpu_usage, memory_stats.usage and memory_stats.limit.
UsageValues == {0, 1, 1000, 1400}
SystemValues == {10000, 10003, 10032, 11000}
MemoryValues == {0, 256, 512}
LimitValues == {0, 512, 768}

RawStats ==
    [total_usage : UsageValues, pre_total_usage : UsageValues,
     system_cpu_usage : SystemValues, pre_system_cpu_usage : SystemValues,
     cores : 1..MaxCores,
     memory_usage : MemoryValues, memory_limit : LimitValues]

\* round(p / q, 2) for q > 0, in hundredths: the nearest hundredth.  The
\* quotient is a float computed in several operations, so for a quotient
\* that lies halfway between two hundredths the float may lie on either
\* side: both neighbours are possible results.
Round2(p, q) ==
    LET f == (100 * p) \div q
        m == (100 * p) - f * q
    IN  IF 2 * m < q THEN {f}
        ELSE IF 2 * m > q THEN {f + 1} ELSE {f, f + 1}

\* the CPU derivation without the test of total_usage
cpu_percent_untested(stats) ==
    LET cpu_delta == stats.total_usage - stats.pre_total_usage
        system_delta == stats.system_cpu_usage - stats.pre_system_cpu_usage
    IN  IF system_delta > 0
        THEN Round2(cpu_delta * stats.cores * 100, system_delta)
        ELSE {0}

\* lines 93-99 and 115: the values round(cpu_usage, 2) can take, in
\* hundredths of a percent
cpu_percent(stats) ==
    IF stats.total_usage > 0
    THEN LET cpu_delta == stats.total_usage - stats.pre_total_usage
             system_delta == stats.system_cpu_usage - stats.pre_system_cpu_usage
         IN  IF system_delta > 0
             THEN Round2(cpu_delta * stats.cores * 100, system_delta)
             ELSE {0}
    ELSE {0}

\* the memory derivation giving the fraction instead of the percentage
memory_percent_fraction(stats) ==
    IF stats.memory_limit > 0
    THEN Round2(stats.memory_usage, stats.memory_limit)
    ELSE {0}

\* lines 101-104 and 116: the values round(memory_usage, 2) can take, in
\* hundredths of a percent
memory_percent(stats) ==
    IF stats.memory_limit > 0
    THEN Round2(stats.memory_usage * 100, stats.memory_limit)
    ELSE {0}

\* The program has read the raw counters of a container.
InitDerive ==
    /\ DOCKER_AVAILABLE \in BOOLEAN
    /\ REDIS_AVAILABLE \in BOOLEAN
    /\ now = 0
    /\ redis_lists = [k \in RedisKeys |-> <<>>]
    /\ metrics_history = <<>>
    /\ pc = "collect_system"
    /\ todo = <<>>
    /\ st = NoStore
    /\ cyc = NewCycle
    /\ lastSleep = 0
    /\ tornKeys = {}
    /\ trimFailures = 0
    /\ written = {}
    /\ req \in {[op |-> "stats", stats |-> s] : s \in RawStats}
    /\ status = [c \in Containers |-> "running"]
    /\ active_sessions = EmptyDict
    /\ nextExec = 0
    /\ attached = [e \in 1..MaxExecs |-> FALSE]
    /\ killed = FALSE

\* lines 93-123: the record is derived from the counters
Derive ==
    /\ req.op = "stats"
    /\ \E cpu \in cpu_percent(req.stats), mem \in memory_percent(req.stats) :
          req' = [op |-> "derived", stats |-> req.stats,
                  cpu_percent |-> cpu, memory_percent |-> mem,
                  memory_usage |-> req.stats.memory_usage,
                  memory_limit |-> req.stats.memory_limit]
    /\ UNCHANGED <<flags, sessVars, now, storeVars, loopVars>>

DeriveNext ==
    \/ Derive
    \/ Respond

SpecDerive == InitDerive /\ [][DeriveNext]_vars

\* ================================================================ claims
\* store_metrics is between its two steps on the stream of metrics_type
Appending(metrics_type) == pc \in {"ltrim", "pop"} /\ st.type = metrics_type

\* The step is the first step of store_metrics (LPUSH, or list.append)
FirstStoreStep ==
    \/ pc = "lpush" /\ pc' = "ltrim"
    \/ pc = "append" /\ pc' = "pop"

\* The step is the last step of store_metrics and it succeeds (LTRIM, or the
\* test and the pop)
LastStoreStep == pc \in {"ltrim", "pop"} /\ pc' = st.ret

\* C1: every append to a stream adds the record at the end of that stream,
\* then keeps its last max_history records, and leaves every other stream as
\* it was; so a stream always holds the last min(n, max_history) records
\* appended to it, in append order, whatever was appended to other streams.
C1_StreamKeepsItsLastRecords ==
    [][ /\ FirstStoreStep =>
              \A t \in MetricsTypes :
                 Retained(t)' = IF t = st.type THEN Append(Retained(t), st.data)
                                ELSE Retained(t)
        /\ LastStoreStep =>
              \A t \in MetricsTypes :
                 Retained(t)' = IF t = st.type THEN LastN(Retained(t), max_history)
                                ELSE Retained(t) ]_vars

\* C2: a stream that is not in the middle of an append, and whose last
\* append ran to completion, holds at most max_history records.
C2_StreamsAtMostCap ==
    \A t \in MetricsTypes :
       (~Appending(t) /\ t \notin tornKeys) => Len(Retained(t)) <= max_history

\* C2 witness: a full stream whose first record was evicted by a completed append
C2_Witness ==
    \E t \in MetricsTypes :
       /\ ~Appending(t) /\ t \notin tornKeys
       /\ Len(Retained(t)) = max_history
       /\ Retained(t)[1].timestamp > 1

\* C3: the same appends followed by the same read give the same result on
\* the Redis backend and on the in-memory backend.
C3_BackendsAgree ==
    req.op = "both" => req.redis = req.memory

\* A get_container_stats_history call has returned, its Redis call answered,
\* and no append to the container's stream was in progress
QuietRead == req.op = "history" /\ ~req.down /\ ~req.mid

\* C4: get_container_stats_history(c) returns the records held under
\* container:c, with either backend.
C4_HistoryIsTheStream ==
    QuietRead => req.result = req.before

\* C5: a read of a stream that was never written, or whose Redis call fails,
\* returns the empty list and raises nothing.
C5_EmptyNeverFails ==
    (req.op = "history" /\ (req.fresh \/ req.down)) =>
        (req.result = <<>> /\ ~req.raised)

\* C5 witness: the Redis call of a read fails while the stream holds records
C5_Witness ==
    /\ req.op = "history" /\ req.down /\ ~req.mid
    /\ Len(req.before) > 0
    /\ req.result = <<>>

\* C6: on the Redis backend, a read made between the two steps of an append
\* to the same stream returns the stream as it was before the append or as
\* it is after it, and at most max_history records.
C6_ReadSeesWholeAppends ==
    (req.op = "history" /\ REDIS_AVAILABLE /\ ~req.down /\ req.mid) =>
        /\ req.result \in {req.before, req.after}
        /\ Len(req.result) <= max_history

\* C7: no cycle of the thread fails in store_metrics.
C7_AppendNeverFailsCycle ==
    cyc.failCause # "store"

\* C8: after an exception has left the try block, the thread starts a new
\* cycle.
C8_LoopResumes ==
    (pc = "except") ~> (pc # "except" /\ cyc.host = 1)

\* C8 witness: an exception raised by list() has left the try block
C8_Witness ==
    pc = "except" /\ cyc.failCause = "list"

\* C9: when a cycle starts, the sleep that ended the cycle before lasted
\* SampleInterval if that cycle completed and BackoffInterval if an
\* exception left its try block.
C9_SleepMatchesOutcome ==
    (pc = "collect_system" /\ lastSleep # 0) =>
        lastSleep = IF cyc.failCause = "none" THEN SampleInterval ELSE BackoffInterval

\* C9 witness: a completed cycle that followed a failed one has slept
\* SampleInterval
C9_Witness ==
    /\ pc = "collect_system"
    /\ cyc.afterFailure /\ cyc.failCause = "none"
    /\ lastSleep = SampleInterval

\* C10: at the end of a completed cycle the host was sampled once, every
\* container listed as running was sampled once and no other container was
\* sampled.
C10_RunningSampledOnce ==
    pc = "sleep" =>
        /\ cyc.host = 1
        /\ \A c \in Containers :
              cyc.sampled[c] = IF c \in cyc.listed THEN 1 ELSE 0

\* C10 witness: a completed cycle with a container that was running and one
\* that was not
C10_Witness ==
    /\ pc = "sleep"
    /\ \E c, d \in Containers :
          c \in cyc.listed /\ d \notin cyc.listed /\ cyc.sampled[c] = 1

\* C11: the visit of a running container in the for loop never leaves the
\* try block, whatever the fetch of its counters does: the container is
\* taken off the list and counted as sampled, the containers behind it stay
\* to be visited, the cycle goes on (to the next container when the record
\* is empty, to store_metrics otherwise) and an empty record writes nothing.
C11_FetchFailureContained ==
    [][ (pc = "for" /\ todo # <<>> /\ req = NoReq /\ req' = NoReq) =>
            /\ pc' \in {"for", "lpush", "append"}
            /\ todo' = Tail(todo)
            /\ cyc' = [cyc EXCEPT !.sampled[Head(todo)] = 1]
            /\ cyc'.failCause = "none"
            /\ (pc' = "for" => st' = NoStore /\ UNCHANGED <<storeVars, written>>)
      ]_vars

\* C11 witness: in the first cycle both containers are listed, the fetch
\* for c1 gave the empty record (nothing was ever written for c1) and the
\* record of c2, visited after it, is being stored
C11_Witness ==
    /\ now = 1 /\ cyc.listed = Containers
    /\ cyc.sampled = [c \in Containers |-> 1]
    /\ cyc.failCause = "none" /\ ~cyc.afterFailure
    /\ pc \in {"lpush", "append"} /\ st.type = ContainerType("c2")
    /\ ContainerType("c1") \notin written

\* The history store holds a record
StoreNotEmpty ==
    metrics_history # <<>> \/ \E k \in RedisKeys : redis_lists[k] # <<>>

\* C12: a query of the host metrics or of a container's metrics never
\* raises: for every outcome of the calls made inside, the caller gets the
\* derived record when all of them succeed and the empty record otherwise.
C12_SamplersNeverRaise ==
    /\ req.op = "system_metrics" =>
          /\ ~req.raised
          /\ req.result = IF req.ok THEN [timestamp |-> now] ELSE EmptyDict
    /\ req.op = "container_metrics" =>
          /\ ~req.raised
          /\ req.result = IF DOCKER_AVAILABLE /\ req.outcome = "ok"
                          THEN [timestamp |-> now] ELSE EmptyDict

\* C12 witness: with the runtime available, a container query whose stats
\* lack a counter field returned the empty record
C12_Witness ==
    /\ DOCKER_AVAILABLE
    /\ req.op = "container_metrics" /\ req.outcome = "field_missing"
    /\ ~req.raised /\ req.result = EmptyDict

\* C13: create_session for a container that is not running, or whose
\* exec_create raises, returns None and leaves active_sessions as it was.
C13_FailedCreateRegistersNothing ==
    (req.op = "create" /\ (~req.running \/ req.outcome = "exec_create_raises")) =>
        req.result = None /\ active_sessions = req.before

\* C13 witness: with a session registered, a create for a stopped container
\* whose runtime calls all succeed has returned None
C13_Witness ==
    /\ DOCKER_AVAILABLE
    /\ req.op = "create" /\ ~req.running /\ req.outcome = "ok"
    /\ req.before # EmptyDict
    /\ req.result = None

\* C14: the id returned by a successful create_session is the id of no
\* session registered before the call, so the call adds one session to
\* active_sessions and replaces none.
C14_CreateAddsASession ==
    (req.op = "create" /\ req.result # None) =>
        /\ req.result \notin DOMAIN req.before
        /\ Cardinality(DOMAIN active_sessions) = Cardinality(DOMAIN req.before) + 1

\* C15: send_command returns False for a session id that is not registered
\* and True for a registered session of a running container when every
\* runtime call succeeds.
C15_SendResult ==
    req.op = "send" =>
        IF ~req.known
        THEN req.result = FALSE
        ELSE (req.running /\ req.outcome = "ok") => req.result = TRUE

\* C16: closing a session raises no error and leaves the session id
\* unregistered, whether the id was registered or not.
C16_CloseIsIdempotent ==
    req.op = "close" =>
        ~req.raised /\ req.session_id \notin DOMAIN active_sessions

\* C17: a session whose container has stopped is no longer registered, at
\* the latest once send_command has been called on it.
C17_SessionEndsWithContainer ==
    (req.op = "send" /\ req.known /\ ~req.running) =>
        req.session_id \notin DOMAIN active_sessions

\* C18: send_command attaches to the exec instance of a session once: it
\* calls exec_start only for a session no stream was attached to before.
C18_AttachOnce ==
    (req.op = "send" /\ req.called) => ~req.attached_before

\* C19: when the process has exited, the thread has stopped between two
\* cycles: before the first step of a cycle or at one of the two sleeps.
C19_StopsBetweenCycles ==
    killed => pc \in {"collect_system", "sleep", "except"}

\* C20: no request (host metrics, container metrics, history read,
\* create_session, send_command) changes the history store.
C20_RequestsLeaveHistory ==
    [][ (req = NoReq /\ req' # NoReq) => UNCHANGED storeVars ]_vars

\* C20 witness: with records in the store, send_command has called
\* exec_start for a registered session
C20_Witness ==
    /\ StoreNotEmpty
    /\ req.op = "send" /\ req.called

\* C21: without a runtime client (DOCKER_AVAILABLE false) the thread never
\* lists or visits a container and no exception leaves the try block
\* because of the runtime: a completed cycle has sampled the host, only the
\* host stream is written, and with the in-process backend (whose append
\* cannot fail) every cycle ends with the sleep of SampleInterval.
C21_DegradesWithoutRuntime ==
    ~DOCKER_AVAILABLE =>
        /\ cyc.failCause \in {"none", "store"}
        /\ pc # "for" /\ todo = <<>> /\ cyc.listed = {}
        /\ written \subseteq {SystemType}
        /\ (pc = "sleep" => cyc.host = 1)
        /\ (~REDIS_AVAILABLE =>
               cyc.failCause = "none" /\ lastSleep \in {0, SampleInterval})

\* C21 witness: without runtime client and on the in-process backend, the
\* second cycle has ended with the sleep of SampleInterval and the host
\* records of both cycles are stored
C21_Witness ==
    /\ ~DOCKER_AVAILABLE /\ ~REDIS_AVAILABLE
    /\ now = 2 /\ pc = "collect_system" /\ lastSleep = SampleInterval
    /\ Len(metrics_history) = 2
    /\ \A i \in 1..2 : metrics_history[i].type = SystemType

\* r (in hundredths) is p / q rounded to two decimals: no hundredth is
\* nearer to p / q
NearestHundredth(r, p, q) ==
    LET d == r * q - 100 * p IN 2 * (IF d < 0 THEN -d ELSE d) <= q

\* C22: the derived cpu_percent is 0 when the current total usage is 0 or
\* the system delta is not positive, and otherwise is
\* cpu_delta / system_delta * cores * 100 rounded to two decimals.
C22_CpuPercent ==
    req.op = "derived" =>
        LET s == req.stats
            cpu_delta == s.total_usage - s.pre_total_usage
            system_delta == s.system_cpu_usage - s.pre_system_cpu_usage
        IN  IF s.total_usage = 0 \/ system_delta <= 0
            THEN req.cpu_percent = 0
            ELSE NearestHundredth(req.cpu_percent, cpu_delta * s.cores * 100,
                                  system_delta)

\* C22 witness: usage 1000 to 1400, system total 10000 to 11000, 4 cores
\* give 160.00
C22_Witness ==
    /\ req.op = "derived"
    /\ req.stats.pre_total_usage = 1000 /\ req.stats.total_usage = 1400
    /\ req.stats.pre_system_cpu_usage = 10000 /\ req.stats.system_cpu_usage = 11000
    /\ req.stats.cores = 4
    /\ req.cpu_percent = 16000

\* C23: the derived memory_percent is 0 when the limit is not positive and
\* otherwise is usage / limit * 100 rounded to two decimals.
C23_MemoryPercent ==
    req.op = "derived" =>
        IF req.stats.memory_limit <= 0
        THEN req.memory_percent = 0
        ELSE NearestHundredth(req.memory_percent, req.stats.memory_usage * 100,
                              req.stats.memory_limit)

\* C23 witness: usage 256 with limit 512 gives 50.00
C23_Witness ==
    /\ req.op = "derived"
    /\ req.stats.memory_usage = 256 /\ req.stats.memory_limit = 512
    /\ req.memory_percent = 5000

\* Every record held in the history store was derived by a sample: it is
\* not empty and carries the timestamp of its sample.
AllStoredDerived ==
    /\ \A k \in RedisKeys : \A i \in 1..Len(redis_lists[k]) :
          "timestamp" \in DOMAIN json_loads(redis_lists[k][i])
    /\ \A i \in 1..Len(metrics_history) :
          "timestamp" \in DOMAIN metrics_history[i].data

\* C24: the thread enters store_metrics only with a record that a sample
\* derived, a sample that gave the empty record leaves the history store as
\* it was, and so every record held in a stream is a derived record.
C24_FailedSampleNotStored ==
    [][ /\ AllStoredDerived'
        /\ (pc' \in {"lpush", "append"} => "timestamp" \in DOMAIN st'.data)
        /\ ( ( /\ req = NoReq /\ req' = NoReq
               /\ pc \in {"collect_system", "for"}
               /\ pc' \in {"list", "for", "sleep"} )
             => UNCHANGED <<storeVars, written>> )
      ]_vars

\* C24 witness: the host sample of the second cycle gave the empty record
\* and the host stream still holds the record of the first cycle only
C24_Witness ==
    /\ now = 2 /\ pc = "list" /\ cyc.host = 1
    /\ Retained(SystemType) = <<[timestamp |-> 1]>>

\* The in-process list is in append order: no entry is older than one
\* before it
OldestFirst(hist) ==
    \A i, j \in 1..Len(hist) : i <= j => hist[i].timestamp <= hist[j].timestamp

\* C25: on the in-process backend the list of all streams together holds at
\* most max_history entries whenever no append is between its two steps,
\* and the step that ends an append removes, when the list is over
\* max_history, its oldest entry and nothing else, whatever the type of
\* that entry.
C25_SharedCapEvictsOldest ==
    [][ ~REDIS_AVAILABLE =>
          /\ (pc' # "pop" => Len(metrics_history') <= max_history)
          /\ OldestFirst(metrics_history')
          /\ ( (pc = "pop" /\ pc' # "pop") =>
                  metrics_history' = IF Len(metrics_history) > max_history
                                     THEN Tail(metrics_history)
                                     ELSE metrics_history )
      ]_vars

\* C25 witness: the in-process list is full of container records and the
\* host record written before them has been evicted
C25_Witness ==
    /\ ~REDIS_AVAILABLE /\ pc # "pop"
    /\ Len(metrics_history) = max_history
    /\ SystemType \in written
    /\ \A i \in 1..Len(metrics_history) : metrics_history[i].type # SystemType

====
